---------------------------- MODULE Spec2Model ----------------------------
(***************************************************************************)
(* Gmail AI agent: the message-processing pass of GmailAIAgent.run_agent,  *)
(* its processed-message store, and the classifier / mail gateway calls    *)
(* it makes (src/src/ai_agent.py, src/src/groq_client.py,                  *)
(* src/src/gmail_client.py).                                               *)
(*                                                                         *)
(* Strings are sequences of one-character strings; a language-model        *)
(* response is a sequence of tokens (a label word, a blank, a full stop).  *)
(* The mail gateway and the language model are the environment: what they  *)
(* answer, and whether they fail, is chosen freely at each call.           *)
(*                                                                         *)
(* The specifications share the state:                                     *)
(*   Spec       the agent driven call by call (run_agent, clear, stats)    *)
(*   SpecRuns   the same with interrupts and with one agent process after  *)
(*              another, remembering which messages got a reply            *)
(*   SpecStore  the store alone: load, add, save                           *)
(*   SpecMain   the command of src/src/main.py, monitor modes included     *)
(*   SpecStored  one agent process, remembering failed store writes        *)
(*   SpecDry    dry-run passes, one agent process after another            *)
(*   SpecExtract  the recipient address alone                              *)
(*   SpecMailbox  the monitor over a mailbox that receives messages        *)
(***************************************************************************)
EXTENDS Integers, Sequences, FiniteSets, TLC

(* ------------------------------ bounds -------------------------------- *)

\* Number of distinct messages the mailbox can ever hold.
NumMsgs == 2

\* Largest clock value.
MaxTime == 2

\* Longest sender field _extract_email_address is tried on.
MaxSenderLen == 5

\* settings.max_emails_to_process, with MAX_EMAILS_TO_PROCESS=2 set.
max_emails_to_process == 2

(* ------------------------------- data --------------------------------- *)

Ids == 1..NumMsgs

Time == 0..MaxTime

\* The messages the mailbox may receive: one more than a fetch returns.
MailIds == 1..(max_emails_to_process + 1)

Labels ==
    {"QUESTION", "REQUEST", "COMPLAINT", "COMPLIMENT", "MEETING",
     "BUSINESS", "PERSONAL", "SPAM", "OTHER"}

\* 'vinaycollege1531@gmail.com', shortened to local part, '@' and domain.
TrustedAddress == <<"v", "@", "g">>

\* The From headers of the messages, by identifier (cyclically).
SenderList ==
    << <<"N", " ", "<", "V", "@", "G", ">">>,
       <<"x", "@", "g">>,
       <<"v", "@", "x">>,
       <<"v", "@", "g">> >>

SenderOf(id) == SenderList[((id - 1) % Len(SenderList)) + 1]

\* Contents the language model may answer the classification prompt with.
Responses ==
    { <<"SPAM">>, <<" ", "SPAM", "\n">>, <<"Spam", ".">>, <<"QUESTION">> }

LLMFail == <<"<error>">>

Whitespace == {" ", "\n", "\t"}

Modes == {"auto", "draft"}

\* processed_messages.json: absent, unreadable, a record written by a save,
\* or JSON of another shape (see OtherShapes).
\* (the last_updated stamp a save writes is only ever displayed: left out)
Missing == [kind |-> "missing", processed_ids |-> {}]

Corrupt == [kind |-> "corrupt", processed_ids |-> {}]

SavedFile(ids) == [kind |-> "saved", processed_ids |-> ids]

\* Parsable JSON that no save wrote:
\*   "array"   the top level is no object, e.g. []
\*   "no_key"  an object without 'processed_ids'
\*   "number"  {"processed_ids": 7}
\*   "string"  {"processed_ids": "..."}: processed_ids holds the characters
\*             of the string, each of them a one-character identifier
OtherShapes ==
    {[kind |-> k, processed_ids |-> {}] : k \in {"array", "no_key", "number"}}
    \cup {[kind |-> "string", processed_ids |-> S] : S \in SUBSET Ids \ {{}}}

NoStats ==
    [returned |-> FALSE, total_processed |-> 0, history_file_exists |-> FALSE,
     last_updated |-> "-"]

NoIntent == <<"<none>">>

CallKinds ==
    {"analyze_email_intent", "classify_llm", "generate_reply",
     "send_reply", "save_as_draft", "mark_as_read"}

(* --------------------------- pure functions --------------------------- *)

\* str.lower(), character by character.
LowerChar(c) ==
    CASE c = "V" -> "v"
      [] c = "G" -> "g"
      [] c = "N" -> "n"
      [] c = "X" -> "x"
      [] OTHER -> c

Lower(s) == [i \in 1..Len(s) |-> LowerChar(s[i])]

\* Python's  needle in hay  for strings.
IsSubstring(needle, hay) ==
    \E i \in 0..(Len(hay) - Len(needle)) :
        SubSeq(hay, i + 1, i + Len(needle)) = needle

RECURSIVE LStrip(_)
LStrip(s) ==
    IF s # <<>> /\ Head(s) \in Whitespace THEN LStrip(Tail(s)) ELSE s

RECURSIVE RStrip(_)
RStrip(s) ==
    IF s # <<>> /\ s[Len(s)] \in Whitespace
    THEN RStrip(SubSeq(s, 1, Len(s) - 1))
    ELSE s

\* str.strip()
Strip(s) == RStrip(LStrip(s))

TrustedSender_NoLower(sender) ==
    sender # <<>> /\ IsSubstring(TrustedAddress, sender)

\* groq_client.py:130  sender and '...' in sender.lower()
TrustedSender(sender) ==
    sender # <<>> /\ IsSubstring(TrustedAddress, Lower(sender))

\* groq_client.py:127-185; llm is the content answered, or LLMFail when the
\* request (or reading its content) raised.
analyze_email_intent(sender, llm) ==
    IF TrustedSender(sender) THEN <<"BUSINESS">>
    ELSE IF llm = LLMFail THEN <<"OTHER">>
    ELSE Strip(llm)

IsSpam_Never(intent) == FALSE

\* ai_agent.py:93  intent in ['SPAM']
IsSpam(intent) == intent = <<"SPAM">>

HasReply_NotNone(reply) == reply # "None"

\* ai_agent.py:105  if reply:   (None and '' are falsy)
HasReply(reply) == reply = "Text"

Dispatches_IgnoreDryRun(has_reply, dry) == has_reply

\* ai_agent.py:105-111  the else branch of  if dry_run
Dispatches(has_reply, dry) == has_reply /\ ~dry

SinceTime_Current(previous_check_time, current) == current

\* ai_agent.py:66-71  since_time=previous_check_time
SinceTime(previous_check_time, current) == previous_check_time

RangeOf(s) == {s[i] : i \in 1..Len(s)}

FilterNew_KeepAll(messages, processed) == messages

\* ai_agent.py:72-75  [msg for msg in messages if msg['id'] not in processed]
FilterNew(messages, processed) ==
    SelectSeq(messages, LAMBDA m : m \notin processed)

AddProcessed_Replace(processed, id) == {id}

\* ai_agent.py:95,139  self.processed_messages.add(message['id'])
AddProcessed(processed, id) == processed \cup {id}

\* ai_agent.py:18-27  set(data.get('processed_ids', [])); set() of a list is
\* its elements, set() of a string is its characters; every exception
\* (no file, no JSON, data without .get, a value set() cannot iterate) gives
\* the empty set.
LoadProcessed(file) ==
    IF file.kind \in {"saved", "string"} THEN file.processed_ids ELSE {}

SaveProcessed_Merge(file, processed, outcome) ==
    CASE outcome = "ok" -> SavedFile(LoadProcessed(file) \cup processed)
      [] outcome = "open_fail" -> file
      [] OTHER -> Corrupt

\* ai_agent.py:29-38; outcome "ok", "open_fail" (the file is left as it
\* was) or "write_fail" (the file was truncated, the dump did not finish).
SaveProcessed(file, processed, outcome) ==
    CASE outcome = "ok" -> SavedFile(processed)
      [] outcome = "open_fail" -> file
      [] OTHER -> Corrupt

SaveOutcomes == {"ok", "open_fail", "write_fail"}

SaveDue_PerMessage(last, raised) == ~raised

\* ai_agent.py:143  the save follows the for loop: it is reached after the
\* last candidate, when nothing raised.
SaveDue(last, raised) == last /\ ~raised

\* ai_agent.py:204-219
get_stats(processed, f) ==
    [returned |-> TRUE,
     total_processed |-> Cardinality(processed),
     history_file_exists |-> f.kind # "missing",
     last_updated |->
         CASE f.kind = "missing" -> "-"
           [] f.kind = "corrupt" -> "Error reading file"
           [] OTHER -> "value"]

SaveProcessedRaises_Propagates(outcome) == outcome # "ok"

\* ai_agent.py:37-38  except Exception: the failure is logged, not raised.
SaveProcessedRaises(outcome) == FALSE

ExceptAtPassBoundary_HttpOnly(exc) ==
    IF exc = "KeyboardInterrupt" THEN "interrupted" ELSE "raised"

\* ai_agent.py:147-148  except Exception: logged, run_agent returns ("error");
\* a KeyboardInterrupt is no Exception and leaves run_agent ("interrupted").
ExceptAtPassBoundary(exc) ==
    IF exc = "KeyboardInterrupt" THEN "interrupted" ELSE "error"

FetchOutcomes == {"ok", "http_error", "raise"}

get_unread_messages_Partial(outcome, listing) ==
    IF outcome = "raise" THEN <<>> ELSE listing

\* gmail_client.py:44-69; listing is what had been retrieved when the call
\* ended: returned when it ended well ("ok"), dropped for [] when an
\* HttpError was caught ("http_error"); nothing is returned when another
\* error left the call ("raise").
get_unread_messages(outcome, listing) ==
    IF outcome = "ok" THEN listing ELSE <<>>

\* What the gateway can return: distinct messages, at most max_results.
Min(a, b) == IF a < b THEN a ELSE b

FetchResults ==
    {s \in UNION {[1..n -> Ids] :
                     n \in 0..Min(max_emails_to_process, NumMsgs)} :
        \A i, j \in 1..Len(s) : i # j => s[i] # s[j]}

\* The mailbox is not looked into: the gateway may return any such list,
\* whatever since_time it is given.
AnyListing == [since \in Time |-> FetchResults]

(* ------------------------------- state -------------------------------- *)

VARIABLES
    now,                \* the latest reading of time.time()
    file,               \* processed_messages.json
    processed_messages, \* self.processed_messages
    last_check_time,    \* self.last_check_time
    dispatched,         \* messages send_reply/save_as_draft was invoked for
                        \* since construction or the last clear (SpecRuns)
    cur_start,          \* start time of the latest pass (construction time)
    pc,                 \* "idle": no call in progress; "loop": in run_agent's
                        \* for loop; "returned": the call op has just returned
    op,                 \* the operation in progress or just returned
    mode,               \* run_agent's mode argument
    dry_run,            \* run_agent's dry_run argument
    fetch_outcome,      \* how the pass's get_unread_messages call ended
    fetched,            \* what get_unread_messages returned to the pass
    new_messages,       \* run_agent's new_messages
    idx,                \* how many candidates the loop has taken up
    processed_count,    \* run_agent's processed_count
    result,             \* how the pass ended
    start_processed,    \* processed_messages when the pass started
    since_time,         \* since_time argument of the pass's fetch
    prev_start,         \* start time of the pass before (construction time)
    intent,             \* intent handed to the loop for new_messages[idx]
    reply,              \* what generate_reply returned for new_messages[idx]
    calls,              \* the calls made while handling new_messages[idx]
    message,            \* the message the loop's last iteration handled
    sender,             \* the sender field _extract_email_address was given
    to_email,           \* the recipient handed to send_reply / save_as_draft
    success,            \* what send_reply / save_as_draft returned
    counted,            \* the iteration incremented processed_count
    dispatched_again,   \* new_messages[idx] was dispatched and had been before
    saves,              \* _save_processed_messages calls the operation made
    save_outcome,       \* how the operation's store write ended
    stats,              \* what get_stats returned
    delivered,          \* messages this process sent or drafted a reply to
    earlier,            \* messages earlier agent processes sent or drafted
                        \* a reply to, since the last clear
    store_failed,       \* a write of the store has failed since the last clear
    dry_handled,        \* messages a dry-run pass handled since the last clear
    proc,               \* where main() is: "library" when the agent is
                        \* driven by calls from outside main()
    args,               \* the parsed command line
    wait,               \* seconds of the monitor's time.sleep in progress
    stop,               \* a KeyboardInterrupt has been delivered
    received,           \* when each message of the mailbox was received
                        \* (-1: not yet)
    read                \* the messages of the mailbox marked as read

\* The agent and its surroundings.
agentVars ==
    <<now, file, processed_messages, last_check_time, dispatched, cur_start>>

\* What is observed of the operation in progress or just returned.
callVars ==
    <<op, mode, dry_run, fetch_outcome, fetched, new_messages, idx,
      processed_count, result, start_processed, since_time, prev_start,
      intent, reply, calls,
      message, sender, to_email, success, counted,
      dispatched_again, saves, save_outcome, stats>>

\* The command around the agent.
mainVars == <<proc, args, wait, stop>>

\* What is remembered of the past for the claims about repeated runs.
historyVars == <<delivered, earlier, store_failed, dry_handled>>

NoHistory ==
    /\ delivered = {}
    /\ earlier = {}
    /\ store_failed = FALSE
    /\ dry_handled = {}

\* The mailbox behind the gateway (SpecMailbox).
mailVars == <<received, read>>

NoMail ==
    /\ received = [id \in MailIds |-> -1]
    /\ read = {}

vars == <<agentVars, pc, callVars, historyVars, mainVars, mailVars>>

\* Files the agent may find when it is constructed.
InitFiles ==
    {Missing, Corrupt} \cup {SavedFile(S) : S \in SUBSET Ids}

\* No operation in progress: nothing observed.
NoCall(o) ==
    /\ op = o
    /\ mode = "auto"
    /\ dry_run = TRUE
    /\ fetch_outcome = "-"
    /\ fetched = <<>>
    /\ new_messages = <<>>
    /\ idx = 0
    /\ processed_count = 0
    /\ result = "none"
    /\ start_processed = {}
    /\ since_time = -1
    /\ prev_start = -1
    /\ intent = NoIntent
    /\ reply = "-"
    /\ calls = {}
    /\ message = 0
    /\ sender = <<>>
    /\ to_email = <<>>
    /\ success = "-"
    /\ counted = FALSE
    /\ dispatched_again = FALSE
    /\ saves = 0
    /\ save_outcome = "-"
    /\ stats = NoStats

\* main.py:37-57; flags main() does not read on the path taken are left at
\* their defaults.
NoArgs ==
    [mode |-> "draft", dry_run |-> FALSE, interval |-> 1, command |-> "run"]

\* The agent is used as a library: no command line, no monitor.
NoMain ==
    /\ proc = "library"
    /\ args = NoArgs
    /\ wait = 0
    /\ stop = FALSE

\* ai_agent.py:11-16  GmailAIAgent.__init__
Init ==
    /\ now = 0
    /\ file \in InitFiles
    /\ processed_messages = LoadProcessed(file)
    /\ last_check_time = now
    /\ dispatched = {}
    /\ cur_start = now
    /\ pc = "returned"
    /\ NoCall("init")
    /\ NoHistory
    /\ NoMail
    /\ NoMain

\* The call returns to its caller, which goes on to something else.
ReturnStep ==
    /\ pc = "returned"
    /\ pc' = "idle"
    /\ op' = "none"
    /\ mode' = "auto"
    /\ dry_run' = TRUE
    /\ fetch_outcome' = "-"
    /\ fetched' = <<>>
    /\ new_messages' = <<>>
    /\ idx' = 0
    /\ processed_count' = 0
    /\ result' = "none"
    /\ start_processed' = {}
    /\ since_time' = -1
    /\ prev_start' = -1
    /\ intent' = NoIntent
    /\ reply' = "-"
    /\ calls' = {}
    /\ message' = 0
    /\ sender' = <<>>
    /\ to_email' = <<>>
    /\ success' = "-"
    /\ counted' = FALSE
    /\ dispatched_again' = FALSE
    /\ saves' = 0
    /\ save_outcome' = "-"
    /\ stats' = NoStats
    /\ UNCHANGED agentVars

Return ==
    /\ ReturnStep
    /\ UNCHANGED <<historyVars, mailVars, mainVars>>

\* ai_agent.py:63-79  run_agent up to the for loop.  t is what time.time()
\* returns (the clock does not go back); fetch is "ok" (the gateway
\* answered), "http_error" (it caught an HttpError) or "raise" (an error
\* get_unread_messages does not catch, caught at ai_agent.py:147).
\* "interrupt": a KeyboardInterrupt arrived during the fetch.
run_agent_begin(m, d, outcomes, listings) ==
    /\ pc = "idle"
    /\ \E t \in now..MaxTime, fetch \in outcomes :
       \E listing \in (IF fetch \in {"raise", "interrupt"} THEN {<<>>}
                       ELSE listings[SinceTime(last_check_time, t)]) :
        LET previous_check_time == last_check_time
            messages == get_unread_messages(fetch, listing)
            new == FilterNew(messages, processed_messages)
        IN  /\ op' = "run_agent"
            /\ mode' = m
            /\ dry_run' = d
            /\ fetch_outcome' = fetch
            /\ now' = t
            /\ last_check_time' = t
            /\ since_time' = SinceTime(previous_check_time, t)
            /\ prev_start' = cur_start
            /\ cur_start' = t
            /\ start_processed' = processed_messages
            /\ fetched' = messages
            /\ new_messages' = new
            /\ result' =
                   CASE fetch = "raise" -> ExceptAtPassBoundary("Exception")
                     [] fetch = "interrupt" ->
                            ExceptAtPassBoundary("KeyboardInterrupt")
                     [] new = <<>> -> "empty"
                     [] OTHER -> "running"
            /\ pc' = IF fetch \notin {"raise", "interrupt"} /\ new # <<>>
                     THEN "loop" ELSE "returned"
    /\ UNCHANGED <<file, processed_messages, dispatched>>
    /\ UNCHANGED <<idx, processed_count, intent, reply, calls,
                   message, sender, to_email, success, counted,
                   dispatched_again, saves, save_outcome, stats>>

\* run_agent called with any mode and dry_run.
BeginPass ==
    /\ \E m \in Modes, d \in BOOLEAN : run_agent_begin(m, d, FetchOutcomes, AnyListing)
    /\ UNCHANGED <<historyVars, mailVars, mainVars>>

\* ai_agent.py:83  the for loop takes new_messages in list order.
NextCandidate_FromEnd(messages, i) == messages[Len(messages) - i]

NextCandidate(messages, i) == messages[i + 1]

\* ai_agent.py:122-123, 135  mark_as_read is called in auto mode when
\* send_reply returned True; draft mode never calls it.
MarksRead_AnyResult(m, sent) == m = "auto"

MarksRead(m, sent) == m = "auto" /\ sent

\* str.split(c)[0]: the part of s before the first c (s when there is none).
BeforeFirst(s, c) ==
    IF \E i \in 1..Len(s) : s[i] = c
    THEN LET i == CHOOSE j \in 1..Len(s) :
                      s[j] = c /\ \A k \in 1..(j - 1) : s[k] # c
         IN  SubSeq(s, 1, i - 1)
    ELSE s

\* str.split(c)[1] for an s that contains c: the part between the first c
\* and the next one (or the end).
SplitSecond(s, c) ==
    LET i == CHOOSE j \in 1..Len(s) :
                 s[j] = c /\ \A k \in 1..(j - 1) : s[k] # c
    IN  BeforeFirst(SubSeq(s, i + 1, Len(s)), c)

Contains(s, c) == \E i \in 1..Len(s) : s[i] = c

\* ai_agent.py:158-162  GmailAIAgent._extract_email_address
extract_email_address(sender_string) ==
    IF Contains(sender_string, "<") /\ Contains(sender_string, ">")
    THEN BeforeFirst(SplitSecond(sender_string, "<"), ">")
    ELSE sender_string

\* Sender fields _extract_email_address is tried on: every string of at most
\* MaxSenderLen characters over SenderAlphabet.
SenderAlphabet == {"a", " ", "<", ">"}

StringsOfLength(n) == [1..n -> SenderAlphabet]

SenderStrings == UNION {StringsOfLength(n) : n \in 0..MaxSenderLen}

\* Outcomes of a call: only "-" when the call is not made.
Outcomes(called, S) == IF called THEN S ELSE {"-"}

\* ai_agent.py:83-145  one iteration of run_agent's for loop and, after the
\* last one, the save and the return.
\*   llm   the classifier's answer (or LLMFail)
\*   gen   what generate_reply returns: "Text", "Empty" ('') or "None"
\*   disp  send_reply / save_as_draft: "ok" (True), "http_error" (False,
\*         HttpError caught in the gateway) or "raise" (any other error,
\*         caught at ai_agent.py:147)
\*   mark  mark_as_read, likewise
\*   save  the outcome of _save_processed_messages
HandleStep ==
    /\ pc = "loop"
    /\ idx < Len(new_messages)
    /\ \E msg \in {NextCandidate(new_messages, idx)} :
       \E trusted \in {TrustedSender(SenderOf(msg))} :
       \E llm \in (IF trusted THEN {LLMFail} ELSE Responses \cup {LLMFail}) :
       \E the_intent \in {analyze_email_intent(SenderOf(msg), llm)} :
       \E generated \in {~IsSpam(the_intent)} :
       \E gen \in Outcomes(generated, {"Text", "Empty", "None"}) :
       \E dispatch \in {Dispatches(generated /\ HasReply(gen), dry_run)} :
       \E disp \in Outcomes(dispatch, {"ok", "http_error", "raise"}) :
       \E mark \in Outcomes(dispatch /\ MarksRead(mode, disp = "ok"),
                            {"ok", "http_error", "raise"}) :
       \E raised \in {disp = "raise" \/ mark = "raise"} :
       \E last \in {idx + 1 = Len(new_messages)} :
       \E due \in {SaveDue(last, raised)} :
       \E save \in Outcomes(due, SaveOutcomes) :
       \E processed \in {IF raised THEN processed_messages
                         ELSE AddProcessed(processed_messages, msg)} :
            /\ idx' = idx + 1
            /\ intent' = the_intent
            /\ reply' = gen
            /\ calls' = {"analyze_email_intent"}
                        \cup (IF trusted THEN {} ELSE {"classify_llm"})
                        \cup (IF generated THEN {"generate_reply"} ELSE {})
                        \cup (IF dispatch /\ mode = "auto"
                              THEN {"send_reply"} ELSE {})
                        \cup (IF dispatch /\ mode = "draft"
                              THEN {"save_as_draft"} ELSE {})
                        \cup (IF mark # "-" THEN {"mark_as_read"} ELSE {})
            /\ message' = msg
            /\ sender' = IF dispatch THEN SenderOf(msg) ELSE <<>>
            /\ to_email' = IF dispatch
                           THEN extract_email_address(SenderOf(msg))
                           ELSE <<>>
            /\ success' = CASE disp = "ok" -> "True"
                             [] disp = "http_error" -> "False"
                             [] disp = "raise" -> "raised"
                             [] OTHER -> "-"
            /\ counted' = (disp = "ok" /\ ~raised)
            /\ processed_count' =
                   IF disp = "ok" /\ ~raised THEN processed_count + 1
                   ELSE processed_count
            /\ processed_messages' = processed
            /\ file' = IF due THEN SaveProcessed(file, processed, save)
                       ELSE file
            /\ saves' = IF due THEN saves + 1 ELSE saves
            /\ save_outcome' = save
            /\ result' = IF raised \/ SaveProcessedRaises(save)
                         THEN ExceptAtPassBoundary("Exception")
                         ELSE IF last THEN "done" ELSE "running"
            /\ pc' = IF raised \/ last THEN "returned" ELSE "loop"
    /\ UNCHANGED <<now, last_check_time, cur_start, op, mode, dry_run,
                   fetch_outcome, fetched, new_messages, start_processed,
                   since_time, prev_start, stats>>

\* One iteration of the loop; which messages were dispatched before is not
\* recorded.
HandleCandidate ==
    /\ HandleStep
    /\ UNCHANGED <<dispatched, dispatched_again, historyVars, mailVars,
                   mainVars>>

DispatchCalls == {"send_reply", "save_as_draft"}

\* One iteration of the loop, recording in dispatched the message
\* send_reply / save_as_draft was invoked for, and in delivered the message
\* it returned True for (ai_agent.py:122,135: mark_as_read is then called,
\* or processed_count incremented).
HandleCandidateRecorded ==
    /\ HandleStep
    /\ \E dispatch \in {calls' \cap DispatchCalls # {}} :
        /\ dispatched' = IF dispatch THEN dispatched \cup {message'}
                         ELSE dispatched
        /\ dispatched_again' = (dispatch /\ message' \in dispatched)
    /\ \E returned_true \in {\/ "mark_as_read" \in calls'
                              \/ processed_count' > processed_count} :
        delivered' = IF returned_true THEN delivered \cup {message'}
                     ELSE delivered
    /\ store_failed' = (store_failed \/ save_outcome' \in {"open_fail",
                                                          "write_fail"})
    /\ UNCHANGED <<earlier, dry_handled, mainVars, mailVars>>

\* A KeyboardInterrupt arrives while run_agent is in its loop (in a call made
\* for the next candidate, or in the sleep before it): it is no Exception,
\* so ai_agent.py:147 does not catch it; the candidate is not added and
\* nothing is saved.
InterruptStep ==
    /\ pc = "loop"
    /\ result' = ExceptAtPassBoundary("KeyboardInterrupt")
    /\ pc' = "returned"
    /\ UNCHANGED agentVars
    /\ UNCHANGED <<op, mode, dry_run, fetch_outcome, fetched, new_messages,
                   idx, processed_count, start_processed, since_time,
                   prev_start, intent, reply, calls,
                   message, sender, to_email, success, counted,
                   dispatched_again, saves,
                   save_outcome, stats>>

\* ai_agent.py:198-202  clear_processed_history
ClearStep ==
    /\ pc = "idle"
    /\ \E save \in SaveOutcomes :
        /\ file' = SaveProcessed(file, {}, save)
        /\ save_outcome' = save
        /\ result' = IF SaveProcessedRaises(save) THEN "raised" ELSE "none"
    /\ saves' = saves + 1
    /\ start_processed' = processed_messages
    /\ processed_messages' = {}
    /\ op' = "clear"
    /\ pc' = "returned"
    /\ UNCHANGED <<now, last_check_time, cur_start>>
    /\ UNCHANGED <<mode, dry_run, fetch_outcome, fetched, new_messages, idx,
                   processed_count, since_time, prev_start, intent, reply,
                   calls,
                   message, sender, to_email, success, counted,
                   dispatched_again, stats>>

ClearHistory ==
    /\ ClearStep
    /\ UNCHANGED <<dispatched, historyVars, mailVars, mainVars>>

\* clear_processed_history called; what was dispatched before no longer
\* counts.
ClearHistoryRecorded ==
    /\ ClearStep
    /\ dispatched' = {}
    /\ delivered' = {}
    /\ earlier' = {}
    /\ dry_handled' = {}
    /\ store_failed' = (save_outcome' \in {"open_fail", "write_fail"})
    /\ UNCHANGED <<mainVars, mailVars>>

\* ai_agent.py:204-219  get_stats
StatsStep ==
    /\ pc = "idle"
    /\ stats' = get_stats(processed_messages, file)
    /\ op' = "stats"
    /\ pc' = "returned"
    /\ UNCHANGED agentVars
    /\ UNCHANGED <<mode, dry_run, fetch_outcome, fetched, new_messages, idx,
                   processed_count, result, start_processed, since_time,
                   prev_start, intent, reply, calls,
                   message, sender, to_email, success, counted,
                   dispatched_again, saves,
                   save_outcome>>

GetStats ==
    /\ StatsStep
    /\ UNCHANGED <<historyVars, mailVars, mainVars>>

Next ==
    \/ BeginPass
    \/ HandleCandidate
    \/ ClearHistory
    \/ GetStats
    \/ Return

Spec == Init /\ [][Next]_vars

(* ------------------- the store, operation by operation ---------------- *)

\* Whatever the file may hold when it is loaded.
StoreFiles == InitFiles \cup OtherShapes

StoreInit ==
    /\ now = 0
    /\ file \in StoreFiles
    /\ processed_messages \in SUBSET Ids
    /\ last_check_time = now
    /\ dispatched = {}
    /\ cur_start = now
    /\ pc = "idle"
    /\ NoCall("none")
    /\ NoHistory
    /\ NoMail
    /\ NoMain

\* ai_agent.py:29-38  _save_processed_messages
SaveStore ==
    /\ \E outcome \in SaveOutcomes :
        /\ file' = SaveProcessed(file, processed_messages, outcome)
        /\ save_outcome' = outcome
    /\ op' = "save"
    /\ start_processed' = processed_messages
    /\ UNCHANGED <<now, processed_messages, last_check_time, dispatched,
                   cur_start, pc>>
    /\ UNCHANGED <<mode, dry_run, fetch_outcome, fetched, new_messages, idx,
                   processed_count, result, since_time, prev_start, intent,
                   reply, calls,
                   message, sender, to_email, success, counted,
                   dispatched_again, saves, stats>>
    /\ UNCHANGED <<historyVars, mailVars, mainVars>>

\* ai_agent.py:15,18-27  self.processed_messages = _load_processed_messages()
LoadStore ==
    /\ processed_messages' = LoadProcessed(file)
    /\ op' = "load"
    /\ UNCHANGED <<now, file, last_check_time, dispatched, cur_start, pc>>
    /\ UNCHANGED <<mode, dry_run, fetch_outcome, fetched, new_messages, idx,
                   processed_count, result, start_processed, since_time,
                   prev_start, intent, reply, calls,
                   message, sender, to_email, success, counted,
                   dispatched_again, saves,
                   save_outcome, stats>>
    /\ UNCHANGED <<historyVars, mailVars, mainVars>>

\* ai_agent.py:95,139  an identifier is added between a load and a save
AddIdentifier ==
    /\ \E id \in Ids :
        processed_messages' = AddProcessed(processed_messages, id)
    /\ op' = "add"
    /\ UNCHANGED <<now, file, last_check_time, dispatched, cur_start, pc>>
    /\ UNCHANGED <<mode, dry_run, fetch_outcome, fetched, new_messages, idx,
                   processed_count, result, start_processed, since_time,
                   prev_start, intent, reply, calls,
                   message, sender, to_email, success, counted,
                   dispatched_again, saves,
                   save_outcome, stats>>
    /\ UNCHANGED <<historyVars, mailVars, mainVars>>

StoreNext ==
    \/ SaveStore
    \/ LoadStore
    \/ AddIdentifier

SpecStore == StoreInit /\ [][StoreNext]_vars

(* ---------------------- the command: main() and monitor --------------- *)

\* ai_agent.py:196  time.sleep(60)
fallback_sleep_seconds == 60

\* ai_agent.py:189  time.sleep(interval_minutes * 60)
seconds_per_minute == 60

\* main.py:37  choices of --mode
CliModes == {"auto", "draft", "monitor-auto", "monitor-draft"}

MonitorModes == {"monitor-auto", "monitor-draft"}

\* main.py:47  --interval, type=int: any integer, negative ones included
Intervals == {-1, 1, 2}

\* main.py:35-57  the command lines, flags that are not read on the path
\* taken left at their defaults.  command is the first of --clear-history,
\* --stats, --list-drafts that is set, "run" when none is.
CommandLines ==
    {[mode |-> m, dry_run |-> d, interval |-> i, command |-> "run"] :
        m \in {"auto", "draft"}, d \in BOOLEAN, i \in {NoArgs.interval}}
    \cup
    {[mode |-> m, dry_run |-> d, interval |-> i, command |-> "run"] :
        m \in MonitorModes, d \in BOOLEAN, i \in Intervals}
    \cup
    {[NoArgs EXCEPT !.command = c] : c \in {"clear", "stats", "list_drafts"}}

\* main.py:101-107  mode="auto" / mode="draft"
MonitorMode(cli_mode) == IF cli_mode = "monitor-auto" THEN "auto" ELSE "draft"

MonitorDryRun_Flag(flag) == flag

\* main.py:103,107 and ai_agent.py:187: --dry-run is not handed to
\* monitor_continuously, which calls run_agent(mode=mode, dry_run=False).
MonitorDryRun(flag) == FALSE

MonitorWait_FallbackOnError(res, interval) ==
    IF res \in {"raised", "error"} \/ interval < 0
    THEN [proc |-> "fallback_sleep", wait |-> fallback_sleep_seconds]
    ELSE [proc |-> "sleeping", wait |-> interval * seconds_per_minute]

\* ai_agent.py:186-196  after run_agent: the sleep of the try block, unless
\* run_agent raised or time.sleep raises (ValueError for a negative
\* length), then the sleep of the except Exception block.
MonitorWait(res, interval) ==
    IF res = "raised" \/ interval < 0
    THEN [proc |-> "fallback_sleep", wait |-> fallback_sleep_seconds]
    ELSE [proc |-> "sleeping", wait |-> interval * seconds_per_minute]

\* main.py:57-66  arguments parsed, agent constructed.
MainInit ==
    /\ now = 0
    /\ file \in InitFiles
    /\ processed_messages = LoadProcessed(file)
    /\ last_check_time = now
    /\ dispatched = {}
    /\ cur_start = now
    /\ pc = "idle"
    /\ NoCall("init")
    /\ NoHistory
    /\ NoMail
    /\ proc = "start"
    /\ args \in CommandLines
    /\ wait = 0
    /\ stop = FALSE

\* main.py:68-71  --clear-history
MainClear ==
    /\ proc = "start"
    /\ args.command = "clear"
    /\ ClearStep
    /\ proc' = "exited"
    /\ UNCHANGED <<args, wait, stop, dispatched, historyVars, mailVars>>

\* main.py:73-80  --stats
MainStats ==
    /\ proc = "start"
    /\ args.command = "stats"
    /\ StatsStep
    /\ proc' = "exited"
    /\ UNCHANGED <<args, wait, stop, historyVars, mailVars>>

\* main.py:82-91  --list-drafts: the drafts are read and logged.
MainListDrafts ==
    /\ proc = "start"
    /\ args.command = "list_drafts"
    /\ op' = "list_drafts"
    /\ proc' = "exited"
    /\ UNCHANGED <<agentVars, pc, historyVars, mailVars, args, wait, stop>>
    /\ UNCHANGED <<mode, dry_run, fetch_outcome, fetched, new_messages, idx,
                   processed_count, result, start_processed, since_time,
                   prev_start, intent, reply, calls,
                   message, sender, to_email, success, counted,
                   dispatched_again, saves,
                   save_outcome, stats>>

\* main.py:93-99  --mode auto / draft: one pass, with the --dry-run flag.
MainRunOnce ==
    /\ proc = "start"
    /\ args.command = "run"
    /\ args.mode \in {"auto", "draft"}
    /\ run_agent_begin(args.mode, args.dry_run,
                       FetchOutcomes \cup {"interrupt"}, AnyListing)
    /\ proc' = "once"
    /\ stop' = (fetch_outcome' = "interrupt")
    /\ UNCHANGED <<args, wait, historyVars, mailVars>>

\* main.py:95-113  run_agent is back: main returns, also when it catches the
\* KeyboardInterrupt (109); an Exception would end in sys.exit(1).
MainExit ==
    /\ proc = "once"
    /\ pc = "returned"
    /\ proc' = IF result = "raised" THEN "failed" ELSE "exited"
    /\ UNCHANGED <<agentVars, pc, callVars, historyVars, mailVars, args,
                   wait, stop>>

\* ai_agent.py:185-187  the next iteration of while True (the first one
\* when main has just called monitor_continuously).
MonitorPass ==
    /\ \/ proc = "monitor"
       \/ proc = "start" /\ args.command = "run" /\ args.mode \in MonitorModes
    /\ run_agent_begin(MonitorMode(args.mode), MonitorDryRun(args.dry_run),
                       FetchOutcomes \cup {"interrupt"}, AnyListing)
    /\ proc' = "monitor"
    /\ stop' = (fetch_outcome' = "interrupt")
    /\ UNCHANGED <<args, wait, historyVars, mailVars>>

\* A KeyboardInterrupt arrives while the command's pass is in its loop.
MainInterrupt ==
    /\ InterruptStep
    /\ stop' = TRUE
    /\ UNCHANGED <<proc, args, wait, historyVars, mailVars>>

\* ai_agent.py:188-189,194-196  run_agent is back: sleep.
MonitorSleep ==
    /\ proc = "monitor"
    /\ pc = "returned"
    /\ result # "interrupted"
    /\ proc' = MonitorWait(result, args.interval).proc
    /\ wait' = MonitorWait(result, args.interval).wait
    /\ UNCHANGED <<agentVars, pc, callVars, historyVars, mailVars, args, stop>>

\* ai_agent.py:191-193  the KeyboardInterrupt left run_agent: break, and
\* monitor_continuously and main return.
MonitorStop ==
    /\ proc = "monitor"
    /\ pc = "returned"
    /\ result = "interrupted"
    /\ proc' = "exited"
    /\ UNCHANGED <<agentVars, pc, callVars, historyVars, mailVars, args,
                   wait, stop>>

\* A KeyboardInterrupt arrives during the sleep: in the try block it is
\* caught at ai_agent.py:191 (break); in the except block it leaves
\* monitor_continuously and main catches it (main.py:109).
SleepInterrupt ==
    /\ proc \in {"sleeping", "fallback_sleep"}
    /\ stop' = TRUE
    /\ proc' = "exited"
    /\ UNCHANGED <<agentVars, pc, callVars, historyVars, mailVars, args, wait>>

\* The sleep is over: back to while True.
MonitorWake ==
    /\ proc \in {"sleeping", "fallback_sleep"}
    /\ ReturnStep
    /\ proc' = "monitor"
    /\ wait' = 0
    /\ UNCHANGED <<historyVars, mailVars, args, stop>>

MainNext ==
    \/ MainClear
    \/ MainStats
    \/ MainListDrafts
    \/ MainRunOnce
    \/ MainExit
    \/ MonitorPass
    \/ HandleCandidate
    \/ MainInterrupt
    \/ MonitorSleep
    \/ MonitorStop
    \/ SleepInterrupt
    \/ MonitorWake

SpecMain == MainInit /\ [][MainNext]_vars

(* ------------------------- one run after another ---------------------- *)

InterruptPass ==
    /\ InterruptStep
    /\ UNCHANGED <<historyVars, mailVars, mainVars>>

\* ai_agent.py:11-16  the process has ended; a new one constructs its agent,
\* which loads the store.  What the ended process delivered is remembered
\* in earlier.
Restart ==
    /\ pc = "idle"
    /\ \E t \in now..MaxTime :
        /\ now' = t
        /\ last_check_time' = t
        /\ cur_start' = t
    /\ processed_messages' = LoadProcessed(file)
    /\ earlier' = earlier \cup delivered
    /\ delivered' = {}
    /\ dispatched' = {}
    /\ op' = "init"
    /\ pc' = "returned"
    /\ UNCHANGED <<file, store_failed, dry_handled, mainVars, mailVars>>
    /\ UNCHANGED <<mode, dry_run, fetch_outcome, fetched, new_messages, idx,
                   processed_count, result, start_processed, since_time,
                   prev_start, intent, reply, calls,
                   message, sender, to_email, success, counted,
                   dispatched_again, saves,
                   save_outcome, stats>>

NextRuns ==
    \/ BeginPass
    \/ HandleCandidateRecorded
    \/ InterruptPass
    \/ Restart
    \/ ClearHistoryRecorded
    \/ GetStats
    \/ Return

SpecRuns == Init /\ [][NextRuns]_vars

(* ------------------ one agent process and its store ------------------- *)

\* One iteration of the loop, remembering whether its store write failed.
HandleCandidateStored ==
    /\ HandleStep
    /\ store_failed' = (store_failed \/ save_outcome' \in {"open_fail",
                                                          "write_fail"})
    /\ UNCHANGED <<dispatched, dispatched_again, delivered, earlier,
                   dry_handled, mainVars, mailVars>>

NextStored ==
    \/ BeginPass
    \/ HandleCandidateStored
    \/ InterruptPass
    \/ ClearHistoryRecorded
    \/ GetStats
    \/ Return

SpecStored == Init /\ [][NextStored]_vars

(* ---------------- dry runs, one agent process after another ----------- *)

\* One iteration of the loop, remembering the message when the pass is a dry
\* run and the iteration reached the add (ai_agent.py:139), and whether the
\* store write failed.
HandleCandidateDry ==
    /\ HandleStep
    /\ dry_handled' = IF dry_run /\ message' \in processed_messages'
                      THEN dry_handled \cup {message'}
                      ELSE dry_handled
    /\ store_failed' = (store_failed \/ save_outcome' \in {"open_fail",
                                                          "write_fail"})
    /\ UNCHANGED <<dispatched, dispatched_again, delivered, earlier,
                   mainVars, mailVars>>

NextDry ==
    \/ BeginPass
    \/ HandleCandidateDry
    \/ InterruptPass
    \/ Restart
    \/ ClearHistoryRecorded
    \/ GetStats
    \/ Return

SpecDry == Init /\ [][NextDry]_vars

(* ------------------- the monitor over a mailbox ----------------------- *)

\* gmail_client.py:47-49  q = 'is:unread after:{since_time}': the unread
\* messages received at since_time or later.
Matching(since) ==
    {id \in MailIds : received[id] >= since /\ id \notin read}

\* gmail_client.py:50-65  one messages.list call with maxResults=max_results
\* and no further page: as many matching messages as the maximum allows,
\* whichever the service puts first.
MailboxListing ==
    [since \in Time |->
        {s \in [1..Min(max_emails_to_process, Cardinality(Matching(since)))
                   -> Matching(since)] :
            \A i, j \in 1..Len(s) : i # j => s[i] # s[j]}]

\* main.py:101-107  a monitor command, the agent just constructed on an
\* empty store, nothing received yet.
MailboxInit ==
    /\ now = 0
    /\ file \in {Missing, SavedFile({})}
    /\ processed_messages = LoadProcessed(file)
    /\ last_check_time = now
    /\ dispatched = {}
    /\ cur_start = now
    /\ pc = "idle"
    /\ NoCall("init")
    /\ NoHistory
    /\ NoMail
    /\ proc = "start"
    /\ args \in {[NoArgs EXCEPT !.mode = m] : m \in MonitorModes}
    /\ wait = 0
    /\ stop = FALSE

\* A message is received, at any moment.
Arrive ==
    /\ \E id \in MailIds, t \in now..MaxTime :
        /\ received[id] = -1
        /\ received' = [received EXCEPT ![id] = t]
        /\ now' = t
    /\ UNCHANGED <<file, processed_messages, last_check_time, dispatched,
                   cur_start, pc, callVars, historyVars, mainVars, read>>

\* ai_agent.py:185-187  the monitor's next pass; the gateway does not fail.
MailboxPass ==
    /\ \/ proc = "monitor"
       \/ proc = "start"
    /\ run_agent_begin(MonitorMode(args.mode), MonitorDryRun(args.dry_run),
                       {"ok"}, MailboxListing)
    /\ proc' = "monitor"
    /\ UNCHANGED <<args, wait, stop, historyVars, mailVars>>

\* One iteration of the loop in which no call fails and the store write
\* succeeds; mark_as_read takes the message out of the unread ones.
MailboxHandle ==
    /\ HandleStep
    /\ result' # "error"
    /\ success' # "False"
    /\ save_outcome' \in {"-", "ok"}
    /\ read' = IF "mark_as_read" \in calls' THEN read \cup {message'}
               ELSE read
    /\ UNCHANGED <<dispatched, dispatched_again, historyVars, mainVars,
                   received>>

MailboxNext ==
    \/ Arrive
    \/ MailboxPass
    \/ MailboxHandle
    \/ MonitorSleep
    \/ MonitorWake

SpecMailbox == MailboxInit /\ [][MailboxNext]_vars

(* ------------------- the recipient address alone ---------------------- *)

\* ai_agent.py:112  _extract_email_address called on a sender field.
ExtractAddress ==
    /\ pc = "idle"
    /\ \E sender_string \in SenderStrings :
        /\ sender' = sender_string
        /\ to_email' = extract_email_address(sender_string)
    /\ op' = "extract"
    /\ pc' = "returned"
    /\ UNCHANGED <<agentVars, historyVars, mailVars, mainVars>>
    /\ UNCHANGED <<mode, dry_run, fetch_outcome, fetched, new_messages, idx,
                   processed_count, result, start_processed, since_time,
                   prev_start, intent, reply, calls, message, success,
                   counted, dispatched_again, saves, save_outcome, stats>>

ExtractNext == ExtractAddress \/ Return

SpecExtract == Init /\ [][ExtractNext]_vars

(* ------------------------------ claims -------------------------------- *)

\* The candidate whose handling has just ended, if any.
Handled == op = "run_agent" /\ idx >= 1

Candidate == new_messages[idx]

MutationCalls == {"send_reply", "save_as_draft", "mark_as_read"}

TypeOK ==
    /\ now \in Time
    /\ last_check_time \in Time
    /\ processed_messages \subseteq Ids \cup MailIds
    /\ dispatched \subseteq Ids
    /\ file \in StoreFiles \/ \E S \in SUBSET MailIds : file = SavedFile(S)
    /\ pc \in {"idle", "loop", "returned"}
    /\ op \in {"none", "init", "run_agent", "clear", "stats",
              "save", "load", "add", "list_drafts", "extract"}
    /\ proc \in {"library", "start", "once", "monitor", "sleeping",
                "fallback_sleep", "exited", "failed"}
    /\ args \in CommandLines
    /\ wait \in Nat
    /\ stop \in BOOLEAN
    /\ idx \in 0..Len(new_messages)
    /\ pc = "loop" => idx < Len(new_messages)
    /\ calls \subseteq CallKinds
    /\ processed_count \in 0..idx
    /\ message \in Ids \cup MailIds \cup {0}
    /\ received \in [MailIds -> Time \cup {-1}]
    /\ read \subseteq MailIds
    /\ \/ sender \in SenderStrings
       \/ \E id \in Ids \cup MailIds : sender = SenderOf(id)
    /\ success \in {"-", "True", "False", "raised"}
    /\ counted \in BOOLEAN

\* C1: send_reply / save_as_draft is invoked at most once per message
\* identifier as long as the history is not cleared: no invocation is for a
\* message one was already made for.
C1_AtMostOnce == ~dispatched_again

\* C2: a fetched message already in ProcessedSet when the pass starts is no
\* candidate and no call is made for it; every other fetched message is a
\* candidate.
C2_Filter ==
    op = "run_agent" =>
        /\ RangeOf(new_messages) = RangeOf(fetched) \ start_processed
        /\ idx >= 1 => Candidate \notin start_processed
        /\ calls # {} => idx >= 1

C2_Witness ==
    /\ Handled
    /\ RangeOf(fetched) \cap start_processed # {}
    /\ "analyze_email_intent" \in calls

\* C3: every candidate the loop has handled is in ProcessedSet once its
\* handling ends, whatever the outcome.
C3_HandledIsProcessed ==
    Handled => \A i \in 1..idx : new_messages[i] \in processed_messages

\* C4: a candidate classified SPAM gets no generate_reply, send_reply,
\* save_as_draft or mark_as_read call, and is in ProcessedSet afterwards.
C4_SpamSkipped ==
    (Handled /\ intent = <<"SPAM">>) =>
        /\ calls \cap ({"generate_reply"} \cup MutationCalls) = {}
        /\ Candidate \in processed_messages

C4_Witness ==
    /\ Handled
    /\ intent = <<"SPAM">>
    /\ ~dry_run
    /\ Candidate \in processed_messages \ start_processed

\* needle occurs in hay when letter case is ignored on both sides
ContainsIgnoringCase(hay, needle) ==
    \E i \in 0..(Len(hay) - Len(needle)) :
        \A j \in 1..Len(needle) : LowerChar(hay[i + j]) = LowerChar(needle[j])

\* C5: a message whose sender contains the trusted address, case ignored,
\* gets intent BUSINESS without any language-model classification call, and
\* is not skipped as SPAM (its reply is generated).
C5_TrustedSender ==
    (Handled /\ ContainsIgnoringCase(SenderOf(Candidate), TrustedAddress)) =>
        /\ intent = <<"BUSINESS">>
        /\ "classify_llm" \notin calls
        /\ "generate_reply" \in calls

C5_Witness ==
    /\ Handled
    /\ SenderOf(Candidate) # Lower(SenderOf(Candidate))
    /\ ContainsIgnoringCase(SenderOf(Candidate), TrustedAddress)
    /\ intent = <<"BUSINESS">>
    /\ "generate_reply" \in calls

\* C6: in a dry-run pass no send_reply, save_as_draft or mark_as_read call is
\* made, in either mode, and generate_reply is still invoked for every
\* candidate that is not SPAM.
C6_DryRun ==
    (op = "run_agent" /\ dry_run) =>
        /\ calls \cap MutationCalls = {}
        /\ dispatched_again = FALSE
        /\ (idx >= 1 /\ intent # <<"SPAM">>) => "generate_reply" \in calls

C6_Witness ==
    /\ Handled
    /\ dry_run
    /\ mode = "auto"
    /\ reply = "Text"
    /\ "generate_reply" \in calls

\* C7: the fetch of a pass gets as since_time the value last_check_time had
\* before the pass, which is the start time of the pass before (construction
\* time for the first pass); last_check_time is the start time of the pass
\* from before the fetch on, also when the fetch or a later step fails; and
\* last_check_time never decreases.
C7_Watermark ==
    /\ [](op = "run_agent" =>
             /\ since_time = prev_start
             /\ last_check_time = cur_start
             /\ since_time <= last_check_time)
    /\ [][last_check_time' >= last_check_time]_vars

C7_Witness ==
    /\ op = "run_agent"
    /\ result = "error"
    /\ 0 < prev_start
    /\ since_time = prev_start
    /\ since_time < last_check_time

\* C8: when generate_reply returns None or '' for a candidate, no
\* send_reply, save_as_draft or mark_as_read call is made for it, it is
\* added to ProcessedSet, the loop goes on with the remaining candidates and
\* the pass does not end in an error.
C8_NoReply ==
    (Handled /\ reply \in {"None", "Empty"}) =>
        /\ calls \cap MutationCalls = {}
        /\ Candidate \in processed_messages
        /\ result # "error"
        /\ idx < Len(new_messages) => pc = "loop"
        /\ idx = Len(new_messages) => result = "done"

C8_Witness ==
    /\ Handled
    /\ reply = "Empty"
    /\ ~dry_run
    /\ idx < Len(new_messages)
    /\ pc = "loop"
    /\ Candidate \in processed_messages

\* C9: ProcessedSet only grows; the one step that removes identifiers is
\* clear_processed_history, which removes them all.
C9_OnlyGrows ==
    [][\/ processed_messages \subseteq processed_messages'
       \/ op' = "clear" /\ processed_messages' = {}]_vars

C9_Witness ==
    /\ Handled
    /\ start_processed # {}
    /\ start_processed \subseteq processed_messages
    /\ start_processed # processed_messages

\* C10: the intent handed to the loop is always one label of the closed set.
C10_ClosedLabelSet ==
    Handled => \E l \in Labels : intent = <<l>>

\* C11: a message an earlier agent process sent or drafted a reply to is not
\* dispatched again by a later process (no clear in between, and no write
\* of the store has failed), however the earlier process's pass ended.
C11_NoRedispatchAcrossRuns ==
    (Handled /\ calls \cap DispatchCalls # {} /\ ~store_failed) =>
        Candidate \notin earlier

\* The command is a monitor command.
Monitoring == proc # "library" /\ args.command = "run"
              /\ args.mode \in MonitorModes

Asleep == proc \in {"sleeping", "fallback_sleep"}

\* C12: when the command is started with --dry-run, whatever --mode, no
\* send_reply, save_as_draft or mark_as_read call is made, and replies are
\* still generated.
C12_DryRunFlag ==
    (proc # "library" /\ args.dry_run) =>
        /\ calls \cap MutationCalls = {}
        /\ (Handled /\ intent # <<"SPAM">>) => "generate_reply" \in calls

\* C13: in monitor mode the wait after a pass that ended with an unexpected
\* failure is the fallback interval, not the configured one, and the
\* fallback interval is shorter than the configured interval.
C13_FallbackAfterFailure ==
    (Monitoring /\ Asleep /\ result = "error") =>
        /\ wait = fallback_sleep_seconds
        /\ fallback_sleep_seconds < args.interval * seconds_per_minute

\* C14: the passes of monitor_continuously have dry_run = FALSE; the command
\* does not end unless a stop was requested; once a stop was requested, in a
\* pass or in a wait, no further pass is started and the command ends; and
\* otherwise every pass that returned is followed by a wait, and every wait
\* by another pass.
C14_MonitorInv ==
    Monitoring =>
        /\ op = "run_agent" => ~dry_run
        /\ proc \in {"exited", "failed"} => stop
        /\ stop => \/ proc = "exited"
                   \/ proc = "monitor" /\ pc = "returned"
                         /\ result = "interrupted" /\ ENABLED MonitorStop
        /\ (proc = "monitor" /\ pc = "returned" /\ ~stop) =>
               /\ result \in {"done", "empty", "error"}
               /\ ENABLED MonitorSleep
        /\ Asleep => ENABLED MonitorWake
        /\ (proc = "monitor" /\ pc = "idle") => ENABLED MonitorPass

C15_ErrorsStayInPass ==
    /\ result # "raised"
    /\ proc # "failed"
    /\ (proc # "library" /\ op = "run_agent" /\ result = "error") =>
          /\ pc = "returned"
          /\ saves = 0
          /\ Monitoring =>
                \/ proc = "monitor" /\ ENABLED MonitorSleep
                \/ Asleep /\ ENABLED MonitorWake
                \/ stop /\ proc = "exited"
    /\ (Monitoring /\ proc = "monitor" /\ pc = "idle") => ENABLED MonitorPass

C15_Witness ==
    /\ Monitoring
    /\ proc = "sleeping"
    /\ op = "run_agent"
    /\ result = "error"
    /\ idx = 2
    /\ ~stop

C17_ClearPersists ==
    op = "clear" =>
        /\ processed_messages = {}
        /\ saves = 1
        /\ get_stats(processed_messages, file).total_processed = 0
        /\ LoadProcessed(file) = {}
        /\ last_check_time = cur_start
        /\ calls = {} /\ fetch_outcome = "-"

\* C17 amended: as stated, but a load by a new agent returns the empty set
\* unless the store could not be opened for writing, in which case the store
\* keeps the content it had.
C17_ClearPersistsUnlessOpenFails ==
    op = "clear" =>
        /\ processed_messages = {}
        /\ saves = 1
        /\ get_stats(processed_messages, file).total_processed = 0
        /\ save_outcome # "open_fail" => LoadProcessed(file) = {}
        /\ save_outcome = "ok" => file = SavedFile({})
        /\ last_check_time = cur_start
        /\ calls = {} /\ fetch_outcome = "-"

C17_Witness ==
    /\ op = "clear"
    /\ start_processed # {}
    /\ save_outcome = "ok"
    /\ file = SavedFile({})
    /\ 0 < last_check_time

\* C19: when the store write fails, at the end of a pass or in
\* clear_processed_history, the operation still returns normally and
\* ProcessedSet has the value the operation gave it (all candidates added,
\* or empty after a clear); a pass filters against the in-memory set also
\* when the store holds something else.
C19_WriteFailureKeepsMemory ==
    /\ (op \in {"run_agent", "clear"}
           /\ save_outcome \in {"open_fail", "write_fail"}) =>
          /\ pc = "returned"
          /\ result \notin {"error", "raised"}
          /\ op = "run_agent" =>
                processed_messages = start_processed \cup RangeOf(new_messages)
          /\ op = "clear" => processed_messages = {}
    /\ (op = "run_agent" /\ saves = 0) =>
          RangeOf(new_messages) = RangeOf(fetched) \ start_processed

C19_Witness ==
    /\ op = "run_agent"
    /\ save_outcome = "open_fail"
    /\ result = "done"
    /\ LoadProcessed(file) # processed_messages
    /\ processed_messages # start_processed

\* C20: when the fetch of a pass fails (an HttpError caught in the gateway,
\* or any other error), the pass has no candidate, makes no classifier or
\* gateway call, leaves ProcessedSet as it was and returns normally.
C20_FetchFailure ==
    (op = "run_agent" /\ fetch_outcome \in {"http_error", "raise"}) =>
        /\ new_messages = <<>>
        /\ idx = 0 /\ calls = {}
        /\ processed_messages = start_processed
        /\ pc = "returned"
        /\ result \in {"empty", "error"}

C20_Witness ==
    /\ op = "run_agent"
    /\ fetch_outcome = "http_error"
    /\ start_processed # {}
    /\ result = "empty"
    /\ pc = "returned"

\* C18: a load gives the empty set when the store is missing, unparsable or
\* of another shape than a save writes, and gives exactly the saved set when
\* the store holds what a successful save wrote.
C18_LoadTotal ==
    op = "load" =>
        /\ file.kind # "saved" => processed_messages = {}
        /\ file.kind = "saved" => processed_messages = file.processed_ids
        /\ save_outcome = "ok" => processed_messages = start_processed

\* C21: a pass whose candidate list is empty (the gateway returned nothing,
\* or only messages already in ProcessedSet) makes no classifier, generator
\* or gateway-mutation call, writes nothing and leaves ProcessedSet as it
\* was; of the agent's state only last_check_time changes.
C21_EmptyPass ==
    /\ [](op = "run_agent" /\ fetch_outcome = "ok"
             /\ RangeOf(fetched) \subseteq start_processed =>
               /\ new_messages = <<>>
               /\ result = "empty" /\ pc = "returned"
               /\ idx = 0 /\ calls = {} /\ saves = 0
               /\ processed_messages = start_processed
               /\ last_check_time = cur_start)
    /\ [][(op' = "run_agent" /\ result' = "empty") =>
             /\ processed_messages' = processed_messages
             /\ file' = file
             /\ dispatched' = dispatched]_vars

C21_Witness ==
    /\ op = "run_agent"
    /\ fetch_outcome = "ok"
    /\ fetched # <<>>
    /\ RangeOf(fetched) \subseteq start_processed
    /\ result = "empty"
    /\ since_time < last_check_time

PositionIn(list, id) ==
    IF \E i \in 1..Len(list) : list[i] = id
    THEN CHOOSE i \in 1..Len(list) : list[i] = id
    ELSE 0

\* C23: candidates are handled one at a time in the order the gateway
\* returned them: the candidates keep the gateway's order, the k-th
\* iteration handles the k-th candidate, every candidate before it is already
\* in ProcessedSet when its calls are made, and no later candidate has been
\* touched.
C23_GatewayOrder ==
    op = "run_agent" =>
        /\ \A i, j \in 1..Len(new_messages) :
               i < j => /\ PositionIn(fetched, new_messages[i]) > 0
                        /\ PositionIn(fetched, new_messages[i])
                              < PositionIn(fetched, new_messages[j])
        /\ Handled => message = new_messages[idx]
        /\ \A i \in 1..(idx - 1) : new_messages[i] \in processed_messages
        /\ \A i \in (idx + 1)..Len(new_messages) :
               new_messages[i] \notin processed_messages
        /\ processed_messages \ start_processed
              \subseteq {new_messages[i] : i \in 1..idx}

C23_Witness ==
    /\ op = "run_agent"
    /\ pc = "loop"
    /\ fetched = <<2, 1>>
    /\ new_messages = <<2, 1>>
    /\ idx = 1
    /\ message = 2
    /\ calls \cap DispatchCalls # {}
    /\ processed_messages = {2}

\* s has a '<' with a '>' somewhere after it.
HasBracketedPart(s) ==
    \E i, j \in 1..Len(s) : i < j /\ s[i] = "<" /\ s[j] = ">"

\* s is 'Name <addr>': a name, a blank, and addr (no bracket in it) between
\* '<' and a closing '>'.
IsNameAddr(s, addr) ==
    /\ Len(addr) >= 1
    /\ ~Contains(addr, "<") /\ ~Contains(addr, ">")
    /\ Len(s) >= Len(addr) + 4
    /\ \E name \in {SubSeq(s, 1, Len(s) - Len(addr) - 3)} :
           s = name \o <<" ", "<">> \o addr \o <<">">>

\* C24: the recipient address is the content between '<' and '>' of the
\* sender field when it has such a bracketed part, and the sender field
\* itself otherwise; for 'Name <addr>' it is addr, and for a field without
\* both brackets it is the field.
C24_RecipientAddress ==
    (op = "extract" \/ (Handled /\ calls \cap DispatchCalls # {})) =>
        /\ HasBracketedPart(sender) =>
               \E i, j \in 1..Len(sender) :
                   /\ i < j /\ sender[i] = "<" /\ sender[j] = ">"
                   /\ to_email = SubSeq(sender, i + 1, j - 1)
        /\ ~HasBracketedPart(sender) => to_email = sender
        /\ \A n \in 1..(Len(sender) - 4) :
               IsNameAddr(sender, SubSeq(sender, Len(sender) - n,
                                         Len(sender) - 1)) =>
                   to_email = SubSeq(sender, Len(sender) - n, Len(sender) - 1)
        /\ ~(Contains(sender, "<") /\ Contains(sender, ">")) =>
               to_email = sender

\* C25: while no store write has failed, the identifiers in durable storage
\* are a subset of the in-memory ProcessedSet; the two are equal right after
\* construction, after a pass that handled its candidates to completion and
\* after clear history.
C25_StoreWithinMemory ==
    ~store_failed =>
        /\ LoadProcessed(file) \subseteq processed_messages
        /\ op = "init" => LoadProcessed(file) = processed_messages
        /\ (op = "run_agent" /\ result = "done") =>
               LoadProcessed(file) = processed_messages
        /\ (op = "clear" /\ pc = "returned") =>
               /\ processed_messages = {}
               /\ LoadProcessed(file) = {}

C25_Witness ==
    /\ ~store_failed
    /\ op = "run_agent"
    /\ result = "done"
    /\ start_processed = {1}
    /\ processed_messages = {1, 2}
    /\ file = SavedFile({1, 2})

\* C26: a message a dry-run pass handled gets no send_reply or save_as_draft
\* call in any later pass that is not a dry run, of the same agent or of a
\* new agent that loads the store, until history is cleared (as long as no
\* write of the store has failed).
C26_DryRunMarksProcessed ==
    (Handled /\ ~dry_run /\ calls \cap DispatchCalls # {} /\ ~store_failed)
        => message \notin dry_handled

\* A message is left behind: received, still unread, not in ProcessedSet,
\* not among the candidates of the pass under way, and older than the
\* watermark.  Every later fetch asks for messages received at
\* last_check_time or later, and last_check_time never goes back, so no
\* later pass gets it.
LeftBehind(id) ==
    /\ received[id] >= 0
    /\ id \notin read
    /\ id \notin processed_messages
    /\ id \notin RangeOf(new_messages)
    /\ received[id] < last_check_time

\* C27: in monitor mode, with a gateway and a classifier that never fail,
\* every message received after the agent was constructed that stays unread
\* eventually is a candidate of a pass and is added to ProcessedSet,
\* however many messages arrive between two passes: so no message is ever
\* left behind.
C27_EveryMessageHandled ==
    \A id \in MailIds : ~LeftBehind(id)

=============================================================================
